---- MODULE Spec2Model ----
(***************************************************************************)
(* Samanvay backend (src/backend/main.py): the threat-aware route planner  *)
(* inside create_convoy, and the request handlers around it that read and  *)
(* write the threat store (initialize_scenario, detect_threats, sos).      *)
(*                                                                         *)
(* Arithmetic.  The program computes in binary floating point; the model   *)
(* computes the same expressions over the exact reals.  A coordinate is    *)
(* held in ticks of 1/Tick degree (0.005 degree, the finest step any       *)
(* handler adds to a coordinate).  Every comparison of the program         *)
(*      sqrt(a) <= b                                                       *)
(* is decided exactly, by clearing denominators and squaring, never by an  *)
(* approximation:  big-integer helpers (B...) carry the products that do   *)
(* not fit TLC's 32-bit integers.  A number of the form                    *)
(*      t + o / (MetersPerDegree * sqrt(m))   ticks                        *)
(* (a detour waypoint's coordinate: centre plus an offset along a          *)
(* normalised vector) is the record [t, o, m]; o = 0 is written with m = 1.*)
(***************************************************************************)
EXTENDS Integers, Sequences, FiniteSets, TLC

VARIABLES
    threat_zones,      \* table threat_zones: rows in rowid order
    incidents,         \* table incidents: rows in rowid order
    convoys,           \* table convoys (committed rows)
    waypoints,         \* table waypoints (committed rows)
    sqlite_sequence,   \* AUTOINCREMENT counters, one per table
    emitted,           \* events published through sio.emit, in order
    returned,          \* values create_convoy returned to its callers, in order
    pc,                \* position of the create_convoy call in flight
    req,               \* its ConvoyRequest
    all_threats,       \* its local all_threats
    threats_on_route,  \* its local threats_on_route
    closest_threat,    \* its local closest_threat (<<>> while there is none)
    waypoint_safe,     \* its local waypoint_safe
    route_points,      \* its local route_points
    convoy_id,         \* its local convoy_id
    seen               \* history: store states current between its two SELECTs

vars == <<threat_zones, incidents, convoys, waypoints, sqlite_sequence, emitted,
          returned, pc, req, all_threats, threats_on_route, closest_threat,
          waypoint_safe, route_points, convoy_id, seen>>

store == <<threat_zones, incidents, convoys, waypoints, sqlite_sequence>>
locals == <<all_threats, threats_on_route, closest_threat, waypoint_safe,
            route_points, convoy_id>>

-----------------------------------------------------------------------------
\* Program constants.

\* range(1, 101): the sample indices run from 1 to Samples.
Samples == 100
\* fraction = i / 101.0
SampleDen == 101
\* radius_in_degrees = threat['radius'] / 111320.0
MetersPerDegree == 111320
\* distance <= radius_in_degrees * 1.1, the margin 1.1 = MarginNum / MarginDen
MarginNum == 11
MarginDen == 10
\* detour_distance = radius_in_degrees * 2.0
DetourFactor == 2
\* radius given to an incident of severity High or Critical
IncidentRadius == 500
\* ticks per degree: 0.005 degree (detect_threats' offset) is one tick
Tick == 200

-----------------------------------------------------------------------------
\* Exact integers beyond 32 bits: [sg |-> -1 | 0 | 1, mg |-> digits], the
\* magnitude in base BBase, least significant digit first, no leading zero.

BBase == 10000

RECURSIVE BDigits(_)
BDigits(n) == IF n = 0 THEN <<>> ELSE <<n % BBase>> \o BDigits(n \div BBase)

RECURSIVE BStrip(_)
BStrip(x) ==
    IF x = <<>> THEN <<>>
    ELSE IF x[Len(x)] = 0 THEN BStrip(SubSeq(x, 1, Len(x) - 1)) ELSE x

RECURSIVE BAddM(_, _, _)
BAddM(x, y, c) ==
    IF x = <<>> /\ y = <<>> THEN (IF c = 0 THEN <<>> ELSE <<c>>)
    ELSE LET xd == IF x = <<>> THEN 0 ELSE Head(x)
             yd == IF y = <<>> THEN 0 ELSE Head(y)
             sum == xd + yd + c
         IN  <<sum % BBase>> \o BAddM(IF x = <<>> THEN <<>> ELSE Tail(x),
                                    IF y = <<>> THEN <<>> ELSE Tail(y),
                                    sum \div BBase)

\* x - y for magnitudes with x >= y (digits not yet stripped)
RECURSIVE BSubM(_, _, _)
BSubM(x, y, c) ==
    IF x = <<>> THEN <<>>
    ELSE LET ys == IF y = <<>> THEN 0 ELSE Head(y)
             diff == Head(x) - ys - c
         IN  <<IF diff < 0 THEN diff + BBase ELSE diff>>
             \o BSubM(Tail(x), IF y = <<>> THEN <<>> ELSE Tail(y),
                      IF diff < 0 THEN 1 ELSE 0)

RECURSIVE BMulD(_, _, _)
BMulD(x, d, c) ==
    IF x = <<>> THEN (IF c = 0 THEN <<>> ELSE <<c>>)
    ELSE LET prod == Head(x) * d + c
         IN  <<prod % BBase>> \o BMulD(Tail(x), d, prod \div BBase)

RECURSIVE BMulM(_, _)
BMulM(x, y) ==
    IF x = <<>> \/ y = <<>> THEN <<>>
    ELSE BAddM(BMulD(x, Head(y), 0), <<0>> \o BMulM(x, Tail(y)), 0)

\* -1, 0, 1 as magnitude x is below, equal to, above magnitude y
RECURSIVE BCmpM(_, _)
BCmpM(x, y) ==
    IF Len(x) # Len(y) THEN (IF Len(x) < Len(y) THEN -1 ELSE 1)
    ELSE IF x = <<>> THEN 0
    ELSE IF x[Len(x)] # y[Len(y)] THEN (IF x[Len(x)] < y[Len(y)] THEN -1 ELSE 1)
    ELSE BCmpM(SubSeq(x, 1, Len(x) - 1), SubSeq(y, 1, Len(y) - 1))

BMk(s, m) ==
    LET digits == BStrip(m)
    IN  [sg |-> IF digits = <<>> THEN 0 ELSE s, mg |-> digits]
BInt(n) == BMk(IF n < 0 THEN -1 ELSE 1, BDigits(IF n < 0 THEN -n ELSE n))
BNeg(x) == [sg |-> -x.sg, mg |-> x.mg]
BMul(x, y) == BMk(x.sg * y.sg, BMulM(x.mg, y.mg))
BAdd(x, y) ==
    IF x.sg = 0 THEN y
    ELSE IF y.sg = 0 THEN x
    ELSE IF x.sg = y.sg THEN BMk(x.sg, BAddM(x.mg, y.mg, 0))
    ELSE IF BCmpM(x.mg, y.mg) >= 0 THEN BMk(x.sg, BSubM(x.mg, y.mg, 0))
    ELSE BMk(y.sg, BSubM(y.mg, x.mg, 0))
BSub(x, y) == BAdd(x, BNeg(y))
BSq(x) == BMul(x, x)

\* a + z * sqrt(m) <= 0, for exact integers a, z and a natural number m
SurdLeqZero(a, z, m) ==
    LET zm == IF m = 0 THEN 0 ELSE z.sg
        a2 == BSq(a)
        z2m == BMul(BSq(z), BInt(m))
    IN  IF a.sg <= 0 /\ zm <= 0 THEN TRUE
        ELSE IF a.sg >= 0 /\ zm >= 0 THEN FALSE
        ELSE IF a.sg > 0 THEN BSub(a2, z2m).sg <= 0
        ELSE BSub(z2m, a2).sg <= 0

-----------------------------------------------------------------------------
\* Route Sampler (create_convoy, the loop over range(1, 101)).

\* A number t + o / (MetersPerDegree * sqrt(m)) ticks; o = 0 is kept with m = 1.
Num(t, o, m) == [t |-> t, o |-> o, m |-> IF o = 0 THEN 1 ELSE m]

\* start_point, end_point: a request's coordinates as a route point
Pt(p) == [lat |-> Num(p.lat, 0, 1), lng |-> Num(p.lng, 0, 1)]

\* The largest n with sqrt(n) / (SampleDen * Tick) <= (radius / MetersPerDegree)
\* * 1.1, i.e. with  n * k^2 <= r^2  for  k = MetersPerDegree * MarginDen / Tick
\* and r = radius * MarginNum * SampleDen:  floor(r^2 / k^2), from r = q*k + s.
MarginLimit(radius) ==
    LET den == (MetersPerDegree * MarginDen) \div Tick
        num == radius * MarginNum * SampleDen
        quo == num \div den
        rem == num % den
    IN  quo * quo + ((2 * quo * rem + ((rem * rem) \div den)) \div den)

\* check_lat, check_lng of sample i, less the threat's centre, in 1/SampleDen
\* ticks; then  distance <= radius_in_degrees * 1.1
SampleHits(i, start, end, threat) ==
    LET dlat == SampleDen * (start.lat - threat.lat) + i * (end.lat - start.lat)
        dlng == SampleDen * (start.lng - threat.lng) + i * (end.lng - start.lng)
    IN  dlat * dlat + dlng * dlng <= MarginLimit(threat.radius)

\* The inner loop at sample i from index j on: the index of the first threat
\* the sample hits (the loop breaks there), 0 when it hits none.
RECURSIVE FirstHitFrom(_, _, _, _, _)
FirstHitFrom(j, i, start, end, threats) ==
    IF j > Len(threats) THEN 0
    ELSE IF SampleHits(i, start, end, threats[j]) THEN j
    ELSE FirstHitFrom(j + 1, i, start, end, threats)

\* Mutant: the loop runs over range(0, 101), so the start point is tested too.
ScanRouteFromStart(start, end, threats) ==
    LET hit0 == [i \in 0..Samples |-> FirstHitFrom(1, i, start, end, threats)]
        appends0 == {i \in 0..Samples :
                       /\ hit0[i] # 0
                       /\ \A k \in 0..(i - 1) :
                              hit0[k] = 0 \/ threats[hit0[k]] # threats[hit0[i]]}
        nth0(n) == CHOOSE i \in appends0 :
                       Cardinality({k \in appends0 : k <= i}) = n
    IN  [n \in 1..Cardinality(appends0) |-> threats[hit0[nth0(n)]]]

\* The outer loop.  At sample i the inner loop stops at threats[hit[i]]
\* (hit[i] = 0: no threat is hit) and appends it unless an equal threat is
\* in threats_on_route (dicts compare by value), that is, unless an earlier
\* sample stopped at an equal threat.  threats_on_route is the threats so appended, in the order
\* of the samples that appended them.
ScanRoute(start, end, threats) ==
    LET hit == [i \in 1..Samples |-> FirstHitFrom(1, i, start, end, threats)]
        appends == {i \in 1..Samples :
                      /\ hit[i] # 0
                      /\ \A k \in 1..(i - 1) :
                             hit[k] = 0 \/ threats[hit[k]] # threats[hit[i]]}
        nth(n) == CHOOSE i \in appends :
                      Cardinality({k \in appends : k <= i}) = n
    IN  [n \in 1..Cardinality(appends) |-> threats[hit[nth(n)]]]

-----------------------------------------------------------------------------
\* Detour Synthesizer (create_convoy, the else branch).

\* The key of min(): the distance from the midpoint to the threat's centre,
\* squared and in half ticks (sqrt is monotone; mid = (start + end) / 2).
MidDist2(t, start, end) ==
    LET mlat == start.lat + end.lat - 2 * t.lat
        mlng == start.lng + end.lng - 2 * t.lng
    IN  mlat * mlat + mlng * mlng

\* min(threats_on_route, key = ...): the first element whose key is minimal
RECURSIVE MinFrom(_, _, _, _, _)
MinFrom(k, best, list, start, end) ==
    IF k > Len(list) THEN best
    ELSE MinFrom(k + 1,
                 IF MidDist2(list[k], start, end) < MidDist2(best, start, end)
                 THEN list[k] ELSE best,
                 list, start, end)

\* Mutant: the first conflicting threat is taken, whatever its distance.
ClosestThreatFirst(list, start, end) == list[1]

ClosestThreat(list, start, end) == MinFrom(2, list[1], list, start, end)

\* Mutant: the route vector is not rotated.
PerpVectorParallel(start, end) ==
    [lat |-> end.lat - start.lat, lng |-> end.lng - start.lng]

\* perp_vector_lat, perp_vector_lng before the division, and perp_magnitude^2
PerpVector(start, end) ==
    LET route_vector_lat == end.lat - start.lat
        route_vector_lng == end.lng - start.lng
    IN  [lat |-> -route_vector_lng, lng |-> route_vector_lat]

\* Mutant: a zero vector is replaced by the unit vector along the latitude.
PerpUnitDefault(start, end) ==
    LET vec0 == PerpVector(start, end)
        perp_magnitude0 == vec0.lat * vec0.lat + vec0.lng * vec0.lng
    IN  IF perp_magnitude0 > 0
        THEN [lat |-> vec0.lat, lng |-> vec0.lng, m |-> perp_magnitude0]
        ELSE [lat |-> 1, lng |-> 0, m |-> 1]

\* if perp_magnitude > 0: both components are divided by it.  The result is
\* (lat, lng) / sqrt(m); a zero vector is left undivided (m = 1).
PerpUnit(start, end) ==
    LET vec == PerpVector(start, end)
        perp_magnitude2 == vec.lat * vec.lat + vec.lng * vec.lng
    IN  [lat |-> vec.lat, lng |-> vec.lng,
         m |-> IF perp_magnitude2 > 0 THEN perp_magnitude2 ELSE 1]

\* Mutant: the offset is one angular radius, not two.
WaypointAtRadius(threat, u, side) ==
    LET scale1 == side * threat.radius * Tick
    IN  [lat |-> Num(threat.lat, scale1 * u.lat, u.m),
         lng |-> Num(threat.lng, scale1 * u.lng, u.m)]

\* threat_center + side * perp * detour_distance, side = 1 (the first
\* waypoint_1) or -1 (the opposite side); detour_distance =
\* (radius / MetersPerDegree) * 2.0 degrees.
Waypoint(threat, u, side) ==
    LET scale == side * DetourFactor * threat.radius * Tick
    IN  [lat |-> Num(threat.lat, scale * u.lat, u.m),
         lng |-> Num(threat.lng, scale * u.lng, u.m)]

\* distance <= radius_in_degrees for route point w and a threat (no margin):
\* with A the centre-to-centre difference times MetersPerDegree, in ticks,
\*   (A.lat + o.lat/sqrt(m))^2 + (A.lng + o.lng/sqrt(m))^2 <= (radius * Tick)^2
Inside(w, threat) ==
    LET mag2 == IF w.lat.o # 0 THEN w.lat.m ELSE w.lng.m
        alat == BInt(MetersPerDegree * (w.lat.t - threat.lat))
        alng == BInt(MetersPerDegree * (w.lng.t - threat.lng))
        olat == BInt(w.lat.o)
        olng == BInt(w.lng.o)
        rho2 == BSq(BInt(threat.radius * Tick))
        lhs == BAdd(BMul(BInt(mag2), BSub(BAdd(BSq(alat), BSq(alng)), rho2)),
                    BAdd(BSq(olat), BSq(olng)))
        surd == BMul(BInt(2), BAdd(BMul(alat, olat), BMul(alng, olng)))
    IN  SurdLeqZero(lhs, surd, mag2)

\* The loop that sets waypoint_safe: false as soon as one threat of
\* all_threats contains the waypoint.
WaypointSafe(w, threats) == \A k \in 1..Len(threats) : ~Inside(w, threats[k])

\* Mutant: the first waypoint is kept even when a threat contains it.
PlanRouteNoFallback(start, end, threats) ==
    LET on_route1 == ScanRoute(start, end, threats)
    IN  IF on_route1 = <<>>
        THEN [threats_on_route |-> on_route1, closest_threat |-> <<>>,
              waypoint_safe |-> TRUE,
              route_points |-> <<Pt(start), Pt(end)>>]
        ELSE LET closest1 == ClosestThreat(on_route1, start, end)
                 first1 == Waypoint(closest1, PerpUnit(start, end), 1)
             IN  [threats_on_route |-> on_route1, closest_threat |-> <<closest1>>,
                  waypoint_safe |-> WaypointSafe(first1, threats),
                  route_points |-> <<Pt(start), first1, Pt(end)>>]

\* The locals of create_convoy after route planning, as one record.
PlanRoute(start, end, threats) ==
    LET on_route == ScanRoute(start, end, threats)
    IN  IF on_route = <<>>
        THEN [threats_on_route |-> on_route, closest_threat |-> <<>>,
              waypoint_safe |-> TRUE,
              route_points |-> <<Pt(start), Pt(end)>>]
        ELSE LET closest == ClosestThreat(on_route, start, end)
                 perp == PerpUnit(start, end)
                 first == Waypoint(closest, perp, 1)
                 safe == WaypointSafe(first, threats)
                 waypoint_1 == IF safe THEN first ELSE Waypoint(closest, perp, -1)
             IN  [threats_on_route |-> on_route, closest_threat |-> <<closest>>,
                  waypoint_safe |-> safe,
                  route_points |-> <<Pt(start), waypoint_1, Pt(end)>>]

-----------------------------------------------------------------------------
\* Bounds and input sets.

\* calls of initialize_scenario
MaxScenarios == 1
\* incidents inserted (sos and detect_threats together)
MaxIncidents == 2
\* calls of create_convoy
MaxConvoys == 1
\* length of the threat set handed to the planner on its own
MaxThreats == 2

P(lat, lng) == [lat |-> lat, lng |-> lng]
T(lat, lng, radius) == [lat |-> lat, lng |-> lng, radius |-> radius]

\* Location bodies posted to /api/scenario/initialize
Locations == {P(0, 100), P(1, 101)}
\* data of an sos event
SosData ==
    {[lat |-> 0, lng |-> 100, severity |-> sv, intensity |-> 5] :
        sv \in {"Low", "High", "Critical"}}
\* lat, lng form fields of /api/detect
DetectPoints == {P(3, 103)}
\* ConvoyRequest bodies posted to /api/convoys
Requests ==
    {[name |-> "alpha", start |-> P(4, 98), end |-> P(4, 106)],
     [name |-> "bravo", start |-> P(0, 98), end |-> P(0, 106)]}

\* Threat regions handed to the planner on its own: concentric and overlapping
\* regions on the segment (0,0)-(0,1 degree), one off it beside each detour
\* side, one at its start, one of radius 0.
PlanRegions ==
    {T(0, 100, 5000), T(0, 100, 500), T(1, 100, 5000), T(-18, 100, 500),
     T(0, 50, 500), T(0, 150, 500), T(0, 0, 500), T(0, 50, 0)}
ThreatLists == UNION {[1..n -> PlanRegions] : n \in 0..MaxThreats}
\* start and end handed to the planner on its own: the one-degree segment in
\* both directions, a zero-length route, an oblique route, and a route whose
\* samples fall on whole ticks.
PlanRequests ==
    {[name |-> "plan", start |-> P(0, 0), end |-> P(0, 200)],
     [name |-> "plan", start |-> P(0, 200), end |-> P(0, 0)],
     [name |-> "plan", start |-> P(0, 100), end |-> P(0, 100)],
     [name |-> "plan", start |-> P(-2, 95), end |-> P(2, 105)],
     [name |-> "plan", start |-> P(0, 0), end |-> P(0, 101)]}

-----------------------------------------------------------------------------
\* The store.

\* The rows both SELECTs of create_convoy would see now.
StoreState == <<threat_zones, incidents>>

\* cursor.execute("INSERT INTO threat_zones ..."): the row with the next rowid
ZoneRow(n, lat, lng, radius, threat_score) ==
    [id |-> n, lat |-> lat, lng |-> lng, radius |-> radius,
     threat_score |-> threat_score]

\* cursor.execute("INSERT INTO incidents ...")
IncidentRow(n, lat, lng, severity, intensity) ==
    [id |-> n, lat |-> lat, lng |-> lng, intensity |-> intensity,
     severity |-> severity]

\* SELECT lat, lng, radius FROM threat_zones, appended to all_threats
RECURSIVE ZoneThreats(_)
ZoneThreats(rows) ==
    IF rows = <<>> THEN <<>>
    ELSE <<T(Head(rows).lat, Head(rows).lng, Head(rows).radius)>>
         \o ZoneThreats(Tail(rows))

\* Mutant: only severity 'High' is selected.
EscalatedHighOnly(row) == row.severity = "High"

\* WHERE severity IN ('High', 'Critical')
Escalated(row) == row.severity \in {"High", "Critical"}

\* SELECT lat, lng FROM incidents WHERE ..., appended with radius 500
RECURSIVE IncidentThreats(_)
IncidentThreats(rows) ==
    IF rows = <<>> THEN <<>>
    ELSE (IF Escalated(Head(rows))
          THEN <<T(Head(rows).lat, Head(rows).lng, IncidentRadius)>>
          ELSE <<>>)
         \o IncidentThreats(Tail(rows))

\* Mutant: the sequence index starts at 1.
RECURSIVE WaypointRowsFromOne(_, _, _, _)
WaypointRowsFromOne(i, route, cid, last) ==
    IF i > Len(route) THEN <<>>
    ELSE <<[id |-> last + i, convoy_id |-> cid, lat |-> route[i].lat,
            lng |-> route[i].lng, sequence |-> i]>>
         \o WaypointRowsFromOne(i + 1, route, cid, last)

\* for i, point in enumerate(route_points): INSERT INTO waypoints ...
RECURSIVE WaypointRows(_, _, _, _)
WaypointRows(i, route, cid, last) ==
    IF i > Len(route) THEN <<>>
    ELSE <<[id |-> last + i, convoy_id |-> cid, lat |-> route[i].lat,
            lng |-> route[i].lng, sequence |-> i - 1]>>
         \o WaypointRows(i + 1, route, cid, last)

\* response_data
ResponseData(cid, name, route) ==
    [convoy_id |-> cid, name |-> name, route |-> route]

NoRequest == [name |-> "", start |-> P(0, 0), end |-> P(0, 0)]

\* True while the create_convoy call holds the event loop: between its first
\* statement and its await, no other coroutine (sos, detect_threats) runs.
LoopBusy == pc \in {"zones_read", "threats_read", "planned", "convoy_committed",
                    "waypoints_committed"}

-----------------------------------------------------------------------------
\* The state after startup_event: empty tables, no request in flight.
Init ==
    /\ threat_zones = <<>>
    /\ incidents = <<>>
    /\ convoys = <<>>
    /\ waypoints = <<>>
    /\ sqlite_sequence = [threat_zones |-> 0, incidents |-> 0, convoys |-> 0,
                          waypoints |-> 0]
    /\ emitted = <<>>
    /\ returned = <<>>
    /\ pc = "idle"
    /\ req = NoRequest
    /\ all_threats = <<>>
    /\ threats_on_route = <<>>
    /\ closest_threat = <<>>
    /\ waypoint_safe = TRUE
    /\ route_points = <<>>
    /\ convoy_id = 0
    /\ seen = {}

\* POST /api/scenario/initialize.  A def handler: it runs on a worker thread,
\* at any point of a create_convoy call; its writes show at db.commit().
initialize_scenario ==
    \E location \in Locations :
        /\ sqlite_sequence.threat_zones < 2 * MaxScenarios
        /\ LET last == sqlite_sequence.threat_zones
               zones == <<ZoneRow(last + 1, location.lat + 4, location.lng + 2, 800, 8),
                         ZoneRow(last + 2, location.lat - 2, location.lng - 3, 600, 10)>>
           IN  /\ threat_zones' = zones
               /\ incidents' = <<>>
               /\ sqlite_sequence' = [sqlite_sequence EXCEPT !.threat_zones = last + 2]
               /\ seen' = IF pc = "zones_read" THEN seen \cup {<<zones, <<>> >>}
                          ELSE seen
        /\ UNCHANGED <<convoys, waypoints, emitted, returned, pc, req, locals>>

\* The insert, commit and emit shared by sos and detect_threats.
InsertIncident(lat, lng, severity, intensity) ==
    /\ ~LoopBusy
    /\ sqlite_sequence.incidents < MaxIncidents
    /\ LET incident_id == sqlite_sequence.incidents + 1
       IN  /\ incidents' = Append(incidents,
                  IncidentRow(incident_id, lat, lng, severity, intensity))
           /\ sqlite_sequence' = [sqlite_sequence EXCEPT !.incidents = incident_id]
           /\ emitted' = Append(emitted,
                  [event |-> "new_incident",
                   data |-> [id |-> incident_id, lat |-> lat, lng |-> lng,
                             severity |-> severity]])
    /\ UNCHANGED <<threat_zones, convoys, waypoints, returned, pc, req, locals, seen>>

\* The sos socket event.
sos ==
    \E data \in SosData :
        InsertIncident(data.lat, data.lng, data.severity, data.intensity)

\* POST /api/detect: the video either shows a person (class 0) or does not.
detect_threats ==
    \E point \in DetectPoints, threat_detected \in BOOLEAN :
        IF threat_detected
        THEN InsertIncident(point.lat + 1, point.lng - 1, "High", 8)
        ELSE /\ ~LoopBusy
             /\ UNCHANGED vars

\* create_convoy, SELECT lat, lng, radius FROM threat_zones
ReadZones ==
    \E r \in Requests :
        /\ pc = "idle"
        /\ sqlite_sequence.convoys < MaxConvoys
        /\ pc' = "zones_read"
        /\ req' = r
        /\ all_threats' = ZoneThreats(threat_zones)
        /\ threats_on_route' = <<>>
        /\ closest_threat' = <<>>
        /\ waypoint_safe' = TRUE
        /\ route_points' = <<>>
        /\ convoy_id' = 0
        /\ seen' = {StoreState}
        /\ UNCHANGED <<store, emitted, returned>>

\* create_convoy, SELECT lat, lng FROM incidents WHERE severity IN (...)
ReadIncidents ==
    /\ pc = "zones_read"
    /\ pc' = "threats_read"
    /\ all_threats' = all_threats \o IncidentThreats(incidents)
    /\ UNCHANGED <<store, emitted, returned, req, threats_on_route, closest_threat,
                   waypoint_safe, route_points, convoy_id, seen>>

\* create_convoy, from threats_on_route = [] to route_points
Plan ==
    /\ pc = "threats_read"
    /\ pc' = "planned"
    /\ LET r == PlanRoute(req.start, req.end, all_threats)
       IN  /\ threats_on_route' = r.threats_on_route
           /\ closest_threat' = r.closest_threat
           /\ waypoint_safe' = r.waypoint_safe
           /\ route_points' = r.route_points
    /\ UNCHANGED <<store, emitted, returned, req, all_threats, convoy_id, seen>>

\* create_convoy, INSERT INTO convoys, db.commit(), cursor.lastrowid
InsertConvoy ==
    /\ pc = "planned"
    /\ pc' = "convoy_committed"
    /\ LET next_id == sqlite_sequence.convoys + 1
       IN  /\ convoys' = Append(convoys,
                  [id |-> next_id, name |-> req.name, status |-> "In-Progress"])
           /\ sqlite_sequence' = [sqlite_sequence EXCEPT !.convoys = next_id]
           /\ convoy_id' = next_id
    /\ UNCHANGED <<threat_zones, incidents, waypoints, emitted, returned, req,
                   all_threats, threats_on_route, closest_threat, waypoint_safe,
                   route_points, seen>>

\* create_convoy, the INSERT INTO waypoints loop and its db.commit()
InsertWaypoints ==
    /\ pc = "convoy_committed"
    /\ pc' = "waypoints_committed"
    /\ waypoints' = waypoints
           \o WaypointRows(1, route_points, convoy_id, sqlite_sequence.waypoints)
    /\ sqlite_sequence' = [sqlite_sequence EXCEPT
           !.waypoints = sqlite_sequence.waypoints + Len(route_points)]
    /\ UNCHANGED <<threat_zones, incidents, convoys, emitted, returned, req,
                   locals, seen>>

\* create_convoy, await sio.emit('convoy_update', response_data)
EmitConvoy ==
    /\ pc = "waypoints_committed"
    /\ pc' = "emitted"
    /\ emitted' = Append(emitted,
           [event |-> "convoy_update",
            data |-> ResponseData(convoy_id, req.name, route_points)])
    /\ UNCHANGED <<store, returned, req, locals, seen>>

\* create_convoy, return response_data
Return ==
    /\ pc = "emitted"
    /\ pc' = "idle"
    /\ returned' = Append(returned, ResponseData(convoy_id, req.name, route_points))
    /\ UNCHANGED <<store, emitted, req, locals, seen>>

Next ==
    \/ initialize_scenario
    \/ sos
    \/ detect_threats
    \/ ReadZones
    \/ ReadIncidents
    \/ Plan
    \/ InsertConvoy
    \/ InsertWaypoints
    \/ EmitConvoy
    \/ Return

Spec == Init /\ [][Next]_vars

\* The planner on its own: create_convoy from the point where all_threats is
\* built, for every request and threat set of the input sets.
PlanInit ==
    /\ threat_zones = <<>>
    /\ incidents = <<>>
    /\ convoys = <<>>
    /\ waypoints = <<>>
    /\ sqlite_sequence = [threat_zones |-> 0, incidents |-> 0, convoys |-> 0,
                          waypoints |-> 0]
    /\ emitted = <<>>
    /\ returned = <<>>
    /\ pc = "threats_read"
    /\ req \in PlanRequests
    /\ all_threats \in ThreatLists
    /\ threats_on_route = <<>>
    /\ closest_threat = <<>>
    /\ waypoint_safe = TRUE
    /\ route_points = <<>>
    /\ convoy_id = 0
    /\ seen = {}

PlanNext == Plan

PlanSpec == PlanInit /\ [][PlanNext]_vars

-----------------------------------------------------------------------------
\* Properties of the planner (checked under PlanSpec).

\* The call in flight has planned its route.
Planned == pc \in {"planned", "convoy_committed", "waypoints_committed", "emitted"}

\* Some interior sample (fractions i/101, i = 1..100) lies within 1.1 times
\* the angular radius of the region's centre.
Intersects(region) ==
    \E i \in 1..Samples : SampleHits(i, req.start, req.end, region)

\* No region of the threat set is met by an interior sample.
RouteClear == \A k \in 1..Len(all_threats) : ~Intersects(all_threats[k])

Listed(region, list) == \E k \in 1..Len(list) : list[k] = region

\* centre + side * u * 2 * (radius / 111320), u the normalised perpendicular
\* (-(end.lng - start.lng), end.lat - start.lat) of the route vector
Candidate(region, side) ==
    LET clat == -(req.end.lng - req.start.lng)
        clng == req.end.lat - req.start.lat
        cm == clat * clat + clng * clng
        cfac == side * 2 * region.radius * Tick
    IN  [lat |-> Num(region.lat, cfac * clat, cm),
         lng |-> Num(region.lng, cfac * clng, cm)]

\* The candidate lies in some region of the full threat set (no margin).
Contained(w) == \E k \in 1..Len(all_threats) : Inside(w, all_threats[k])

\* C1: the route is [start, end] exactly when no region has an interior sample
\* within its margin; otherwise it has 3 points: start, one detour waypoint
\* (a candidate of a region of the threat set), end.
C1_RouteShape ==
    Planned =>
        /\ (route_points = <<Pt(req.start), Pt(req.end)>>) <=> RouteClear
        /\ ~RouteClear =>
              /\ Len(route_points) = 3
              /\ route_points[1] = Pt(req.start)
              /\ route_points[3] = Pt(req.end)
              /\ \E k \in 1..Len(all_threats), side \in {1, -1} :
                     route_points[2] = Candidate(all_threats[k], side)

\* C1 witness: a region holds the start point itself within its margin, no
\* interior sample is within any margin, and the route is the direct one.
C1_Witness ==
    /\ pc = "planned"
    /\ \E k \in 1..Len(all_threats) :
           SampleHits(0, req.start, req.end, all_threats[k])
    /\ RouteClear
    /\ Len(route_points) = 2

\* C2: a region is in the conflict list exactly when some interior sample lies
\* within its margin; no region is missed because another one was hit.
C2_EveryIntersectingListed ==
    Planned =>
        \A k \in 1..Len(all_threats) :
            Listed(all_threats[k], threats_on_route) <=> Intersects(all_threats[k])

\* C3: the detour is built around the region of the conflict list nearest to
\* the midpoint, the one that entered the list first among equally near ones.
C3_NearestConflict ==
    (Planned /\ threats_on_route # <<>>) =>
        /\ Len(closest_threat) = 1
        /\ route_points[2].lat.t = closest_threat[1].lat
        /\ route_points[2].lng.t = closest_threat[1].lng
        /\ \E k \in 1..Len(threats_on_route) :
              /\ threats_on_route[k] = closest_threat[1]
              /\ \A j \in 1..Len(threats_on_route) :
                     MidDist2(threats_on_route[j], req.start, req.end)
                         >= MidDist2(threats_on_route[k], req.start, req.end)
              /\ \A j \in 1..(k - 1) :
                     MidDist2(threats_on_route[j], req.start, req.end)
                         > MidDist2(threats_on_route[k], req.start, req.end)

\* C3 witness: two regions in the conflict list, the second one strictly
\* nearer to the midpoint, and the detour built around it.
C3_Witness ==
    /\ pc = "planned"
    /\ Len(threats_on_route) = 2
    /\ MidDist2(threats_on_route[2], req.start, req.end)
           < MidDist2(threats_on_route[1], req.start, req.end)
    /\ closest_threat = <<threats_on_route[2]>>

\* C4 as stated: the waypoint equals the primary candidate exactly when that
\* candidate lies in no region of the full threat set, and equals the
\* opposite-side candidate when it lies in one.
C4_PrimaryExactlyWhenSafe ==
    (Planned /\ threats_on_route # <<>>) =>
        /\ (route_points[2] = Candidate(closest_threat[1], 1))
               <=> ~Contained(Candidate(closest_threat[1], 1))
        /\ Contained(Candidate(closest_threat[1], 1)) =>
               route_points[2] = Candidate(closest_threat[1], -1)

\* C4 as amended: the waypoint is the primary candidate if that candidate lies
\* in no region of the full threat set (plain containment, conflicting or
\* not); otherwise it is the opposite-side candidate, taken unchecked.
C4_SingleFallback ==
    (Planned /\ threats_on_route # <<>>) =>
        route_points[2] =
            IF Contained(Candidate(closest_threat[1], 1))
            THEN Candidate(closest_threat[1], -1)
            ELSE Candidate(closest_threat[1], 1)

\* C4 witness: both candidates lie inside a region, they differ, and the
\* opposite-side one is returned.
C4_Witness ==
    /\ pc = "planned"
    /\ threats_on_route # <<>>
    /\ Contained(Candidate(closest_threat[1], 1))
    /\ Contained(Candidate(closest_threat[1], -1))
    /\ Candidate(closest_threat[1], 1) # Candidate(closest_threat[1], -1)
    /\ route_points[2] = Candidate(closest_threat[1], -1)

\* The waypoint's distance from the centre of the region it is built around
\* is twice the angular radius: with w = centre + o / (111320 * sqrt(m)),
\* o.lat^2 + o.lng^2 = m * (2 * radius * Tick)^2.
AtTwiceRadius(w, region) ==
    /\ w.lat.t = region.lat
    /\ w.lng.t = region.lng
    /\ BSub(BAdd(BSq(BInt(w.lat.o)), BSq(BInt(w.lng.o))),
            BMul(BInt(IF w.lat.o # 0 THEN w.lat.m ELSE w.lng.m),
                 BSq(BInt(2 * region.radius * Tick)))).sg = 0

\* C5 as stated: in every 3-point route the waypoint lies outside the circle
\* of the region the detour is built around, at twice its angular radius.
C5_WaypointOutside ==
    (Planned /\ Len(route_points) = 3) =>
        /\ AtTwiceRadius(route_points[2], closest_threat[1])
        /\ ~Inside(route_points[2], closest_threat[1])

\* C5 as amended: in every 3-point route with start # end the waypoint is at
\* twice the angular radius from the centre of the region the detour is built
\* around, on either side, hence outside its circle when the radius is not 0.
C5_OutsideUnlessDegenerate ==
    (Planned /\ Len(route_points) = 3 /\ req.start # req.end) =>
        /\ AtTwiceRadius(route_points[2], closest_threat[1])
        /\ closest_threat[1].radius > 0 =>
               ~Inside(route_points[2], closest_threat[1])

\* C5 witness: a 3-point route on an oblique segment, the opposite side taken.
C5_Witness ==
    /\ pc = "planned"
    /\ Len(route_points) = 3
    /\ req.start.lat # req.end.lat
    /\ req.start.lng # req.end.lng
    /\ ~waypoint_safe
    /\ closest_threat[1].radius > 0

\* C6: for start # end the primary candidate is centre + u * 2 * radius/111320
\* (the returned waypoint is that candidate, or its mirror image after the
\* fallback); for (0,0) -> (0,1) and one region at (0, 0.5) of 5000 m the
\* waypoint keeps longitude 0.5 and is 2 * 5000 / 111320 degrees off in latitude.
C6_PerpendicularOffset ==
    (Planned /\ threats_on_route # <<>> /\ req.start # req.end) =>
        /\ route_points[2] =
               Candidate(closest_threat[1], IF waypoint_safe THEN 1 ELSE -1)
        /\ (req.start = P(0, 0) /\ req.end = P(0, Tick)
            /\ all_threats = <<T(0, Tick \div 2, 5000)>>) =>
               /\ Len(route_points) = 3
               /\ route_points[2].lng = Num(Tick \div 2, 0, 1)
               /\ route_points[2].lat.t = 0
               /\ route_points[2].lat.m = Tick * Tick
               /\ route_points[2].lat.o \in {2 * 5000 * Tick * Tick,
                                            -(2 * 5000 * Tick * Tick)}

\* C6 witness: the scenario of the one-degree segment has been planned.
C6_Witness ==
    /\ pc = "planned"
    /\ req.start = P(0, 0)
    /\ req.end = P(0, Tick)
    /\ all_threats = <<T(0, Tick \div 2, 5000)>>
    /\ waypoint_safe
    /\ Len(route_points) = 3

\* C7: for start = end within the margin of a region the route is
\* [start, w, end] with w the centre of the nearest listed region.
C7_DegenerateRoute ==
    (Planned /\ req.start = req.end /\ ~RouteClear) =>
        /\ Len(route_points) = 3
        /\ route_points[1] = Pt(req.start)
        /\ route_points[3] = Pt(req.end)
        /\ \E k \in 1..Len(threats_on_route) :
              /\ route_points[2] = Pt(P(threats_on_route[k].lat,
                                        threats_on_route[k].lng))
              /\ \A j \in 1..Len(threats_on_route) :
                     MidDist2(threats_on_route[j], req.start, req.end)
                         >= MidDist2(threats_on_route[k], req.start, req.end)

\* C7 witness: a zero-length route lying inside a region, two regions
\* supplied, planned after the fallback.
C7_Witness ==
    /\ pc = "planned"
    /\ req.start = req.end
    /\ Len(all_threats) = 2
    /\ threats_on_route # <<>>
    /\ ~waypoint_safe
    /\ Len(route_points) = 3

-----------------------------------------------------------------------------
\* Properties of the handlers and the store (checked under Spec).

\* Both SELECTs of the call in flight have run.
ThreatsRead == pc \in {"threats_read", "planned", "convoy_committed",
                       "waypoints_committed", "emitted"}

\* The threat set a store state stands for: one region per threat_zones row,
\* then one region of 500 m per incident of severity High or Critical.
ExpectedThreats(state) ==
    LET zrows == state[1]
        irows == SelectSeq(state[2],
                     LAMBDA row : row.severity = "High" \/ row.severity = "Critical")
    IN  [k \in 1..Len(zrows) |-> T(zrows[k].lat, zrows[k].lng, zrows[k].radius)]
        \o [k \in 1..Len(irows) |-> T(irows[k].lat, irows[k].lng, 500)]

\* C8: a call whose two SELECTs saw one store state (no other request wrote
\* between them) plans against exactly that state's threat set, nothing
\* dropped, merged or added; and no step of create_convoy changes a threat
\* zone or an incident.
C8_ThreatSet ==
    /\ [](\A state \in seen :
             (ThreatsRead /\ seen = {state}) => all_threats = ExpectedThreats(state))
    /\ [][pc' # pc => UNCHANGED <<threat_zones, incidents>>]_vars

\* C8 witness: zones, an incident of severity Low and one of severity
\* Critical are stored, and the call has read its two threats of the zones
\* and one of the incidents.
C8_Witness ==
    /\ pc = "threats_read"
    /\ seen = {StoreState}
    /\ Len(threat_zones) = 2
    /\ \E k \in 1..Len(incidents) : incidents[k].severity = "Low"
    /\ \E k \in 1..Len(incidents) : incidents[k].severity = "Critical"
    /\ Len(all_threats) = 3

\* The rows of table waypoints stored under a convoy id, in rowid order.
RowsOf(cid) == SelectSeq(waypoints, LAMBDA row : row.convoy_id = cid)

\* The convoy_update events carrying a convoy id.
UpdatesOf(cid) ==
    {k \in 1..Len(emitted) :
        emitted[k].event = "convoy_update" /\ emitted[k].data.convoy_id = cid}

\* The route of a response is stored under its convoy id, index 0 upward.
Stored(response) ==
    /\ Len(RowsOf(response.convoy_id)) = Len(response.route)
    /\ \A i \in 1..Len(response.route) :
          /\ RowsOf(response.convoy_id)[i].sequence = i - 1
          /\ RowsOf(response.convoy_id)[i].lat = response.route[i].lat
          /\ RowsOf(response.convoy_id)[i].lng = response.route[i].lng

\* C9: each completed call has created one convoy of its own, stored its
\* route under that convoy's id with indices 0, 1, (2), published one
\* convoy_update equal to the value returned; and an event is never
\* published before its route's waypoints are committed.
C9_StoreThenPublish ==
    /\ Len(convoys) = Len(returned)
           + (IF pc \in {"convoy_committed", "waypoints_committed", "emitted"}
              THEN 1 ELSE 0)
    /\ \A k \in 1..Len(returned) :
          /\ convoys[k].id = returned[k].convoy_id
          /\ convoys[k].name = returned[k].name
          /\ \A j \in 1..Len(returned) : j # k =>
                 returned[j].convoy_id # returned[k].convoy_id
          /\ Len(returned[k].route) \in {2, 3}
          /\ Stored(returned[k])
          /\ Cardinality(UpdatesOf(returned[k].convoy_id)) = 1
          /\ \A e \in UpdatesOf(returned[k].convoy_id) :
                 emitted[e].data = returned[k]
    /\ \A e \in 1..Len(emitted) :
          emitted[e].event = "convoy_update" => Stored(emitted[e].data)
    /\ pc = "emitted" =>
          \E e \in 1..Len(emitted) :
              /\ emitted[e].event = "convoy_update"
              /\ emitted[e].data = ResponseData(convoy_id, req.name, route_points)

\* C9 witness: a call has returned a 3-point route.
C9_Witness ==
    /\ Len(returned) >= 1
    /\ Len(returned[1].route) = 3
    /\ pc = "idle"

\* C10: the zones and the escalated incidents a call plans against come from
\* one and the same committed state of the store, one that was current at
\* some moment between the call's two SELECTs.
C10_ConsistentSnapshot ==
    ThreatsRead => \E state \in seen : all_threats = ExpectedThreats(state)

====
